---------------------------- MODULE Spec2Model ----------------------------
(***************************************************************************)
(* A model of lambda_universal_router: the Router's registration table,   *)
(* its dispatch loop, the per-family classifiers (can_handle) and the     *)
(* typed-event parsers (parse_event).                                     *)
(*                                                                         *)
(* Python values are tagged records, so that a payload may hold a value   *)
(* of any type at any key, as a deserialized JSON document does:          *)
(*   None   [t |-> "none"]            str   [t |-> "str",  s |-> "..."]    *)
(*   bool   [t |-> "bool", b |-> _]   int   [t |-> "int",  n |-> _]        *)
(*   list   [t |-> "list", items |-> <<v1, ...>>]                          *)
(*   dict   [t |-> "dict", kv |-> << <<k1, v1>>, ... >>]  (insertion order)*)
(* An operation that raises yields [t |-> "raise", exc |-> _, msg |-> _]  *)
(* and every operation passes a raise it is given on to its caller.       *)
(***************************************************************************)
EXTENDS Integers, Sequences, FiniteSets, TLC

VARIABLES
    handlers,        \* Router._handlers: the ordered table of HandlerRegistration
    custom_handler,  \* Router._custom_handler: None or the fallback registration
    last,            \* the last call made on the router and what it did
    probe            \* a classifier/parser applied to a payload on its own

vars == <<handlers, custom_handler, last, probe>>

----------------------------------------------------------------------------
(* Python values *)

PyNone == [t |-> "none"]
S(s) == [t |-> "str", s |-> s]
I(n) == [t |-> "int", n |-> n]
B(b) == [t |-> "bool", b |-> b]
Float(n) == [t |-> "float", n |-> n]
Bytes(s) == [t |-> "bytes", s |-> s]
L(items) == [t |-> "list", items |-> items]
D(kv) == [t |-> "dict", kv |-> kv]
Raise(exc, msg) == [t |-> "raise", exc |-> exc, msg |-> msg]

PyTrue == B(TRUE)
PyFalse == B(FALSE)
EmptyDict == D(<<>>)
EmptyList == L(<<>>)

IsRaise(v) == v.t = "raise"
IsDict(v) == v.t = "dict"

\* bool(v) of a value the classifiers produce
Truthy(v) == v.t = "bool" /\ v.b

HasKey(d, k) == \E i \in 1..Len(d.kv) : d.kv[i][1] = k
Lookup(d, k) == d.kv[CHOOSE i \in 1..Len(d.kv) : d.kv[i][1] = k][2]

\* sub in s, for two Python strings
IsSubstring(sub, s) ==
    \E i \in 1..(Len(s) - Len(sub) + 1) : SubSeq(s, i, i + Len(sub) - 1) = sub

\* `key in x`, key a string literal
PyIn(key, x) ==
    CASE x.t = "raise" -> x
      [] x.t = "dict" -> B(HasKey(x, key))
      [] x.t = "list" -> B(\E i \in 1..Len(x.items) : x.items[i] = S(key))
      [] x.t = "str" -> B(IsSubstring(key, x.s))
      [] OTHER -> Raise("TypeError", "argument is not iterable")

\* len(x)
PyLen(x) ==
    CASE x.t = "raise" -> x
      [] x.t = "dict" -> I(Len(x.kv))
      [] x.t = "list" -> I(Len(x.items))
      [] x.t = "str" -> I(Len(x.s))
      [] x.t = "bytes" -> I(Len(x.s))
      [] OTHER -> Raise("TypeError", "object has no len()")

\* n > 0
PyGtZero(n) == IF IsRaise(n) THEN n ELSE B(n.n > 0)

\* x['key']
PyKey(x, key) ==
    CASE x.t = "raise" -> x
      [] x.t = "dict" -> IF HasKey(x, key) THEN Lookup(x, key)
                         ELSE Raise("KeyError", key)
      [] x.t \in {"list", "str", "bytes"} ->
            Raise("TypeError", "indices must be integers")
      [] OTHER -> Raise("TypeError", "object is not subscriptable")

\* x[0]; the keys of a deserialized payload are strings, so 0 is no key of a dict
PyIndex0(x) ==
    CASE x.t = "raise" -> x
      [] x.t = "list" -> IF Len(x.items) > 0 THEN x.items[1]
                         ELSE Raise("IndexError", "list index out of range")
      [] x.t = "str" -> IF Len(x.s) > 0 THEN S(SubSeq(x.s, 1, 1))
                        ELSE Raise("IndexError", "string index out of range")
      [] x.t = "dict" -> Raise("KeyError", "0")
      [] OTHER -> Raise("TypeError", "object is not subscriptable")

\* a == b
PyEq(a, b) == IF IsRaise(a) THEN a ELSE IF IsRaise(b) THEN b ELSE B(a = b)

\* a and b: b is evaluated only when a is true
PyAnd(a, b) == IF IsRaise(a) THEN a ELSE IF Truthy(a) THEN b ELSE a

\* x.get(key, default)
PyGet(x, key, default) ==
    CASE x.t = "raise" -> x
      [] x.t = "dict" -> IF HasKey(x, key) THEN Lookup(x, key) ELSE default
      [] OTHER -> Raise("AttributeError", "object has no attribute 'get'")

\* the items a for-loop over x visits, as a list, or the error iter(x) raises
PyIter(x) ==
    CASE x.t = "raise" -> x
      [] x.t = "list" -> x
      [] x.t = "dict" -> L([i \in 1..Len(x.kv) |-> S(x.kv[i][1])])
      [] x.t = "str" -> L([i \in 1..Len(x.s) |-> S(SubSeq(x.s, i, i))])
      [] OTHER -> Raise("TypeError", "object is not iterable")

\* list(x.values()) of a dict
PyValues(x) == L([i \in 1..Len(x.kv) |-> x.kv[i][2]])


----------------------------------------------------------------------------
(* handlers.py: the classifiers.  can_handle yields PyTrue, PyFalse or a raise. *)

FirstRecord(event) == PyIndex0(PyKey(event, "Records"))

APIGatewayHandler_can_handle(event) ==
    PyAnd(PyIn("httpMethod", event),
    PyAnd(PyIn("path", event),
          PyIn("requestContext", event)))

\* a queue classifier that looks for its tag in any record of the batch
SQSHandler_can_handle_AnyRecord(event) ==
    IF /\ HasKey(event, "Records")
       /\ Lookup(event, "Records").t = "list"
       /\ \E i \in 1..Len(Lookup(event, "Records").items) :
              PyGet(Lookup(event, "Records").items[i], "eventSource", PyNone)
                  = S("aws:sqs")
    THEN PyTrue
    ELSE PyFalse

SQSHandler_can_handle(event) ==
    PyAnd(PyIn("Records", event),
    PyAnd(PyGtZero(PyLen(PyKey(event, "Records"))),
    PyAnd(PyIn("eventSource", FirstRecord(event)),
          PyEq(PyKey(FirstRecord(event), "eventSource"), S("aws:sqs")))))

S3Handler_can_handle(event) ==
    PyAnd(PyIn("Records", event),
    PyAnd(PyGtZero(PyLen(PyKey(event, "Records"))),
    PyAnd(PyIn("eventSource", FirstRecord(event)),
          PyEq(PyKey(FirstRecord(event), "eventSource"), S("aws:s3")))))

DynamoDBStreamHandler_can_handle(event) ==
    PyAnd(PyIn("Records", event),
    PyAnd(PyGtZero(PyLen(PyKey(event, "Records"))),
    PyAnd(PyIn("eventSource", FirstRecord(event)),
          PyEq(PyKey(FirstRecord(event), "eventSource"), S("aws:dynamodb")))))

KinesisStreamHandler_can_handle(event) ==
    PyAnd(PyIn("Records", event),
    PyAnd(PyGtZero(PyLen(PyKey(event, "Records"))),
    PyAnd(PyIn("eventSource", FirstRecord(event)),
          PyEq(PyKey(FirstRecord(event), "eventSource"), S("aws:kinesis")))))

\* a pub/sub classifier keyed on the lowercase field, as the other batch
\* classifiers are
SNSHandler_can_handle_Lowercase(event) ==
    PyAnd(PyIn("Records", event),
    PyAnd(PyGtZero(PyLen(PyKey(event, "Records"))),
    PyAnd(PyIn("eventSource", FirstRecord(event)),
          PyEq(PyKey(FirstRecord(event), "eventSource"), S("aws:sns")))))

SNSHandler_can_handle(event) ==
    PyAnd(PyIn("Records", event),
    PyAnd(PyGtZero(PyLen(PyKey(event, "Records"))),
    PyAnd(PyIn("EventSource", FirstRecord(event)),
          PyEq(PyKey(FirstRecord(event), "EventSource"), S("aws:sns")))))

EventBridgeHandler_can_handle(event) ==
    PyAnd(PyIn("source", event),
    PyAnd(PyIn("detail-type", event),
          PyIn("detail", event)))

\* x in ['aws:kafka', 'aws:self-managed-kafka']
InKafkaSources(x) ==
    IF IsRaise(x) THEN x ELSE B(x \in {S("aws:kafka"), S("aws:self-managed-kafka")})

KafkaHandler_can_handle(event) ==
    PyAnd(PyIn("eventSource", event),
    PyAnd(InKafkaSources(PyKey(event, "eventSource")),
          PyIn("records", event)))

CustomHandler_can_handle(event) == PyTrue

\* Router._event_handlers: the classifier held under each key
HandlerKeys ==
    {"apigateway", "sqs", "s3", "dynamodb", "kinesis", "sns", "eventbridge",
     "kafka", "custom"}

\* the keys the family registration methods use
FamilyKeys == HandlerKeys \ {"custom"}

can_handle(h, event) ==
    CASE h = "apigateway" -> APIGatewayHandler_can_handle(event)
      [] h = "sqs" -> SQSHandler_can_handle(event)
      [] h = "s3" -> S3Handler_can_handle(event)
      [] h = "dynamodb" -> DynamoDBStreamHandler_can_handle(event)
      [] h = "kinesis" -> KinesisStreamHandler_can_handle(event)
      [] h = "sns" -> SNSHandler_can_handle(event)
      [] h = "eventbridge" -> EventBridgeHandler_can_handle(event)
      [] h = "kafka" -> KafkaHandler_can_handle(event)
      [] h = "custom" -> CustomHandler_can_handle(event)


----------------------------------------------------------------------------
(* events/*.py: the typed events.  An object is its class and its attributes; *)
(* a constructor whose argument evaluation raises, raises.                     *)

Obj(cls, attrs) == [t |-> "obj", cls |-> cls, attrs |-> attrs]

\* cls(a1=v1, ...) with the arguments evaluated in order: fields is
\* << <<attr, value>>, ... >>
MkObj(cls, fields) ==
    IF \E i \in 1..Len(fields) : IsRaise(fields[i][2])
    THEN fields[CHOOSE i \in 1..Len(fields) :
                   /\ IsRaise(fields[i][2])
                   /\ \A j \in 1..(i - 1) : ~IsRaise(fields[j][2])][2]
    ELSE Obj(cls, [a \in {fields[i][1] : i \in 1..Len(fields)} |->
                     fields[CHOOSE i \in 1..Len(fields) : fields[i][1] = a][2]])

\* [f(record) for record in iterable], out being f applied to each item
Collected(out) ==
    IF \E i \in 1..Len(out) : IsRaise(out[i])
    THEN out[CHOOSE i \in 1..Len(out) :
                /\ IsRaise(out[i])
                /\ \A j \in 1..(i - 1) : ~IsRaise(out[j])]
    ELSE L(out)

\* BaseEvent.__init__: keeps the raw payload, then runs the class's _parse_event
BaseEvent(cls, event_dict, fields) ==
    MkObj(cls, <<<<"raw_event", event_dict>>>> \o fields)

APIGatewayIdentity_from_dict(data) ==
    MkObj("APIGatewayIdentity", <<
        <<"cognito_identity_pool_id", PyGet(data, "cognitoIdentityPoolId", S(""))>>,
        <<"account_id", PyGet(data, "accountId", S(""))>>,
        <<"cognito_identity_id", PyGet(data, "cognitoIdentityId", S(""))>>,
        <<"caller", PyGet(data, "caller", S(""))>>,
        <<"api_key", PyGet(data, "apiKey", S(""))>>,
        <<"source_ip", PyGet(data, "sourceIp", S(""))>>,
        <<"cognito_authentication_type", PyGet(data, "cognitoAuthenticationType", S(""))>>,
        <<"cognito_authentication_provider",
          PyGet(data, "cognitoAuthenticationProvider", S(""))>>,
        <<"user_arn", PyGet(data, "userArn", S(""))>>,
        <<"user_agent", PyGet(data, "userAgent", S(""))>>,
        <<"user", PyGet(data, "user", S(""))>>,
        <<"access_key", PyGet(data, "accessKey", S(""))>> >>)

APIGatewayRequestContext_from_dict(data) ==
    MkObj("APIGatewayRequestContext", <<
        <<"account_id", PyGet(data, "accountId", S(""))>>,
        <<"resource_id", PyGet(data, "resourceId", S(""))>>,
        <<"operation_name", PyGet(data, "operationName", S(""))>>,
        <<"stage", PyGet(data, "stage", S(""))>>,
        <<"domain_name", PyGet(data, "domainName", S(""))>>,
        <<"domain_prefix", PyGet(data, "domainPrefix", S(""))>>,
        <<"request_id", PyGet(data, "requestId", S(""))>>,
        <<"protocol", PyGet(data, "protocol", S(""))>>,
        <<"identity", APIGatewayIdentity_from_dict(PyGet(data, "identity", EmptyDict))>>,
        <<"resource_path", PyGet(data, "resourcePath", S(""))>>,
        <<"http_method", PyGet(data, "httpMethod", S(""))>>,
        <<"request_time", PyGet(data, "requestTime", S(""))>>,
        <<"request_time_epoch", PyGet(data, "requestTimeEpoch", I(0))>>,
        <<"path", PyGet(data, "path", S(""))>> >>)

APIGatewayEvent(event_dict) ==
    BaseEvent("APIGatewayEvent", event_dict, <<
        <<"version", PyGet(event_dict, "version", S(""))>>,
        <<"resource", PyGet(event_dict, "resource", S(""))>>,
        <<"path", PyGet(event_dict, "path", S(""))>>,
        <<"http_method", PyGet(event_dict, "httpMethod", S(""))>>,
        <<"headers", PyGet(event_dict, "headers", EmptyDict)>>,
        <<"multi_value_headers", PyGet(event_dict, "multiValueHeaders", EmptyDict)>>,
        <<"query_string_parameters",
          PyGet(event_dict, "queryStringParameters", EmptyDict)>>,
        <<"multi_value_query_string_parameters",
          PyGet(event_dict, "multiValueQueryStringParameters", EmptyDict)>>,
        <<"path_parameters", PyGet(event_dict, "pathParameters", EmptyDict)>>,
        <<"stage_variables", PyGet(event_dict, "stageVariables", EmptyDict)>>,
        <<"request_context",
          APIGatewayRequestContext_from_dict(
              PyGet(event_dict, "requestContext", EmptyDict))>>,
        <<"body", PyGet(event_dict, "body", S(""))>>,
        <<"is_base64_encoded", PyGet(event_dict, "isBase64Encoded", PyFalse)>> >>)

SQSMessage_from_dict(data) ==
    MkObj("SQSMessage", <<
        <<"message_id", PyGet(data, "messageId", S(""))>>,
        <<"body", PyGet(data, "body", S(""))>>,
        <<"attributes", PyGet(data, "messageAttributes", EmptyDict)>> >>)

\* [SQSMessage.from_dict(record) for record in it]
SQSMessage_list(it) ==
    IF IsRaise(it) THEN it
    ELSE Collected([i \in 1..Len(it.items) |-> SQSMessage_from_dict(it.items[i])])

SQSEvent(event_dict) ==
    BaseEvent("SQSEvent", event_dict, <<
        <<"records",
          SQSMessage_list(PyIter(PyGet(event_dict, "Records", EmptyList)))>> >>)

S3Object_from_dict(data) ==
    MkObj("S3Object", <<
        <<"key", PyGet(data, "key", S(""))>>,
        <<"size", PyGet(data, "size", I(0))>>,
        <<"etag", PyGet(data, "eTag", S(""))>> >>)

S3Bucket_from_dict(data) ==
    MkObj("S3Bucket", <<
        <<"name", PyGet(data, "name", S(""))>>,
        <<"arn", PyGet(data, "arn", S(""))>> >>)

\* s3_data = data.get('s3', {}) is evaluated first
S3Record_from_dict(data) ==
    LET s3_data == PyGet(data, "s3", EmptyDict) IN
    IF IsRaise(s3_data) THEN s3_data
    ELSE MkObj("S3Record", <<
        <<"event_name", PyGet(data, "eventName", S(""))>>,
        <<"event_time", PyGet(data, "eventTime", S(""))>>,
        <<"bucket", S3Bucket_from_dict(PyGet(s3_data, "bucket", EmptyDict))>>,
        <<"s3_object", S3Object_from_dict(PyGet(s3_data, "object", EmptyDict))>> >>)

\* [S3Record.from_dict(record) for record in it]
S3Record_list(it) ==
    IF IsRaise(it) THEN it
    ELSE Collected([i \in 1..Len(it.items) |-> S3Record_from_dict(it.items[i])])

S3Event(event_dict) ==
    BaseEvent("S3Event", event_dict, <<
        <<"records",
          S3Record_list(PyIter(PyGet(event_dict, "Records", EmptyList)))>> >>)

DynamoDBStreamRecord_from_dict(data) ==
    MkObj("DynamoDBStreamRecord", <<
        <<"event_id", PyGet(data, "eventID", S(""))>>,
        <<"event_name", PyGet(data, "eventName", S(""))>>,
        <<"event_version", PyGet(data, "eventVersion", S(""))>>,
        <<"event_source", PyGet(data, "eventSource", S(""))>>,
        <<"aws_region", PyGet(data, "awsRegion", S(""))>>,
        <<"dynamodb", PyGet(data, "dynamodb", EmptyDict)>> >>)

\* [DynamoDBStreamRecord.from_dict(record) for record in it]
DynamoDBStreamRecord_list(it) ==
    IF IsRaise(it) THEN it
    ELSE Collected([i \in 1..Len(it.items) |-> DynamoDBStreamRecord_from_dict(it.items[i])])

DynamoDBStreamEvent(event_dict) ==
    BaseEvent("DynamoDBStreamEvent", event_dict, <<
        <<"records",
          DynamoDBStreamRecord_list(
              PyIter(PyGet(event_dict, "Records", EmptyList)))>> >>)

\* kinesis_data = data.get('kinesis', {}) is evaluated first
KinesisRecord_from_dict(data) ==
    LET kinesis_data == PyGet(data, "kinesis", EmptyDict) IN
    MkObj("KinesisRecord", <<
        <<"kinesis_schema_version", PyGet(kinesis_data, "kinesisSchemaVersion", S(""))>>,
        <<"partition_key", PyGet(kinesis_data, "partitionKey", S(""))>>,
        <<"sequence_number", PyGet(kinesis_data, "sequenceNumber", S(""))>>,
        <<"data", PyGet(kinesis_data, "data", Bytes(""))>>,
        <<"approximate_arrival_timestamp",
          PyGet(kinesis_data, "approximateArrivalTimestamp", Float(0))>> >>)

\* [KinesisRecord.from_dict(record) for record in it]
KinesisRecord_list(it) ==
    IF IsRaise(it) THEN it
    ELSE Collected([i \in 1..Len(it.items) |-> KinesisRecord_from_dict(it.items[i])])

KinesisStreamEvent(event_dict) ==
    BaseEvent("KinesisStreamEvent", event_dict, <<
        <<"records",
          KinesisRecord_list(PyIter(PyGet(event_dict, "Records", EmptyList)))>> >>)

\* sns = data.get('Sns', {}) is evaluated first
SNSMessage_from_dict(data) ==
    LET sns == PyGet(data, "Sns", EmptyDict) IN
    MkObj("SNSMessage", <<
        <<"message_id", PyGet(sns, "MessageId", S(""))>>,
        <<"topic_arn", PyGet(sns, "TopicArn", S(""))>>,
        <<"message", PyGet(sns, "Message", S(""))>>,
        <<"subject", PyGet(sns, "Subject", S(""))>>,
        <<"timestamp", PyGet(sns, "Timestamp", S(""))>>,
        <<"message_attributes", PyGet(sns, "MessageAttributes", EmptyDict)>> >>)

\* [SNSMessage.from_dict(record) for record in it]
SNSMessage_list(it) ==
    IF IsRaise(it) THEN it
    ELSE Collected([i \in 1..Len(it.items) |-> SNSMessage_from_dict(it.items[i])])

SNSEvent(event_dict) ==
    BaseEvent("SNSEvent", event_dict, <<
        <<"records",
          SNSMessage_list(PyIter(PyGet(event_dict, "Records", EmptyList)))>> >>)

EventBridgeDetail_from_dict(data) ==
    MkObj("EventBridgeDetail", << <<"raw_detail", data>> >>)

EventBridgeEvent(event_dict) ==
    BaseEvent("EventBridgeEvent", event_dict, <<
        <<"version", PyGet(event_dict, "version", S(""))>>,
        <<"id", PyGet(event_dict, "id", S(""))>>,
        <<"detail_type", PyGet(event_dict, "detail-type", S(""))>>,
        <<"source", PyGet(event_dict, "source", S(""))>>,
        <<"account", PyGet(event_dict, "account", S(""))>>,
        <<"time", PyGet(event_dict, "time", S(""))>>,
        <<"region", PyGet(event_dict, "region", S(""))>>,
        <<"resources", PyGet(event_dict, "resources", EmptyList)>>,
        <<"detail",
          EventBridgeDetail_from_dict(PyGet(event_dict, "detail", EmptyDict))>> >>)

KafkaRecord_from_dict(data) ==
    MkObj("KafkaRecord", <<
        <<"topic", PyGet(data, "topic", S(""))>>,
        <<"partition", PyGet(data, "partition", I(0))>>,
        <<"offset", PyGet(data, "offset", I(0))>>,
        <<"timestamp", PyGet(data, "timestamp", I(0))>>,
        <<"timestamp_type", PyGet(data, "timestampType", S(""))>>,
        <<"key", PyGet(data, "key", Bytes(""))>>,
        <<"value", PyGet(data, "value", Bytes(""))>>,
        <<"headers", PyGet(data, "headers", EmptyList)>> >>)

\* [KafkaRecord.from_dict(record) for record in it]
KafkaRecord_list(it) ==
    IF IsRaise(it) THEN it
    ELSE Collected([i \in 1..Len(it.items) |-> KafkaRecord_from_dict(it.items[i])])

KafkaEvent(event_dict) ==
    LET records == PyGet(event_dict, "records", EmptyList)
        listed == IF IsDict(records) THEN PyValues(records) ELSE records
    IN  BaseEvent("KafkaEvent", event_dict, <<
            <<"event_source", PyGet(event_dict, "eventSource", S(""))>>,
            <<"event_source_arn", PyGet(event_dict, "eventSourceArn", S(""))>>,
            <<"bootstrap_servers", PyGet(event_dict, "bootstrapServers", S(""))>>,
            <<"records", KafkaRecord_list(PyIter(listed))>> >>)

CustomEvent(event_dict) ==
    BaseEvent("CustomEvent", event_dict, << <<"event_data", event_dict>> >>)

\* EventHandler.parse_event of the classifier held under key h
parse_event(h, event) ==
    CASE h = "apigateway" -> APIGatewayEvent(event)
      [] h = "sqs" -> SQSEvent(event)
      [] h = "s3" -> S3Event(event)
      [] h = "dynamodb" -> DynamoDBStreamEvent(event)
      [] h = "kinesis" -> KinesisStreamEvent(event)
      [] h = "sns" -> SNSEvent(event)
      [] h = "eventbridge" -> EventBridgeEvent(event)
      [] h = "kafka" -> KafkaEvent(event)
      [] h = "custom" -> CustomEvent(event)


----------------------------------------------------------------------------
(* base.py, router.py: the registration table and dispatch *)

\* HandlerRegistration.__init__; handler is the key of Router._event_handlers
\* whose classifier the registration holds
HandlerRegistration(func, handler, path, method) ==
    [func |-> func, handler |-> handler, path |-> path, method |-> method]

\* str.upper() on the method names registered
Upper(method) ==
    CASE method = "get" -> "GET"
      [] method = "post" -> "POST"
      [] OTHER -> method

\* what a call ended with: a returned value, or a raise
Return(v) == [t |-> "return", value |-> v]

NoHandlerFound == Raise("ValueError", "No handler found for the given event type")
OnlyOneCustom == Raise("ValueError", "Only one custom handler can be registered")

\* the steps a dispatch takes, in order
CanHandleStep(i, reg, result) ==
    [step |-> "can_handle", idx |-> i, handler |-> reg.handler, result |-> result]
ParseStep(i, reg, result) ==
    [step |-> "parse_event", idx |-> i, handler |-> reg.handler, result |-> result]
CallStep(i, reg, parsed_event, context, result) ==
    [step |-> "call", idx |-> i, func |-> reg.func, event |-> parsed_event,
     context |-> context, result |-> result]

\* what a user callback does when invoked: it returns a value naming it, or,
\* when raises, it raises an error of its own
Behaviour(func, raises) ==
    IF raises THEN Raise("RuntimeError", func) ELSE Return(S(func))

\* registration.func(parsed_event, context): the user callback is opaque
Call(reg, parsed_event, context, raises) == Behaviour(reg.func, raises)

\* the record of a dispatch that ended with outcome after the steps of trace
Ended(event, context, outcome, trace) ==
    [op |-> "dispatch", event |-> event, context |-> context,
     outcome |-> outcome, trace |-> trace]

\* a dispatch that hands back the callback's value inside a list
Invoked_Wrapped(i, reg, event, context, before, parsed_event, result) ==
    Ended(event, context,
          IF IsRaise(result) THEN result ELSE Return(L(<<result.value>>)),
          before \o <<ParseStep(i, reg, parsed_event),
                      CallStep(i, reg, parsed_event, context, result)>>)

\* a dispatch that catches the callback's error and reports no handler
Invoked_Caught(i, reg, event, context, before, parsed_event, result) ==
    Ended(event, context,
          IF IsRaise(result) THEN NoHandlerFound ELSE result,
          before \o <<ParseStep(i, reg, parsed_event),
                      CallStep(i, reg, parsed_event, context, result)>>)

\* return registration.func(parsed_event, context)
Invoked(i, reg, event, context, before, parsed_event, result) ==
    Ended(event, context, result,
          before \o <<ParseStep(i, reg, parsed_event),
                      CallStep(i, reg, parsed_event, context, result)>>)

\* lines 148-149 and 153-154, parsed_event being handler.parse_event(event):
\* a raise of the parser leaves dispatch, otherwise the callback is invoked
Invoke(i, reg, event, context, raises, before, parsed_event) ==
    IF IsRaise(parsed_event)
    THEN Ended(event, context, parsed_event,
               before \o <<ParseStep(i, reg, parsed_event)>>)
    ELSE Invoked(i, reg, event, context, before, parsed_event,
                 Call(reg, parsed_event, context, raises))

ParseAndCall(i, reg, event, context, raises, before) ==
    Invoke(i, reg, event, context, raises, before, parse_event(reg.handler, event))

\* lines 151-156: no registration matched; idx 0 is the fallback slot
DispatchFallback(custom, event, context, raises, before) ==
    IF custom # PyNone
    THEN ParseAndCall(0, custom, event, context, raises, before)
    ELSE Ended(event, context, NoHandlerFound, before)

\* lines 146-149: the loop over self._handlers, from entry i on; Consult is
\* one iteration, c being registration.handler.can_handle(event)
RECURSIVE DispatchLoop(_, _, _, _, _, _, _)
\* a loop that invokes the callback of a matching entry without returning:
\* it goes on to the entries after it and to the fallback
Consult_NoReturn(i, table, custom, event, context, raises, seen, c) ==
    IF IsRaise(c) THEN Ended(event, context, c, seen)
    ELSE IF Truthy(c)
         THEN DispatchLoop(i + 1, table, custom, event, context, raises,
                  ParseAndCall(i, table[i], event, context, raises, seen).trace)
         ELSE DispatchLoop(i + 1, table, custom, event, context, raises, seen)

Consult(i, table, custom, event, context, raises, seen, c) ==
    IF IsRaise(c) THEN Ended(event, context, c, seen)
    ELSE IF Truthy(c)
         THEN ParseAndCall(i, table[i], event, context, raises, seen)
         ELSE DispatchLoop(i + 1, table, custom, event, context, raises, seen)

\* a loop that takes a gateway entry only when the payload's path and method
\* are the ones the entry declares
Consulted_Routed(i, table, custom, event, context, raises, before, c) ==
    Consult(i, table, custom, event, context, raises,
            before \o <<CanHandleStep(i, table[i], c)>>,
            IF table[i].handler = "apigateway" /\ c = PyTrue
            THEN B(/\ table[i].path = PyGet(event, "path", S(""))
                   /\ table[i].method = PyGet(event, "httpMethod", S("")))
            ELSE c)

Consulted(i, table, custom, event, context, raises, before, c) ==
    Consult(i, table, custom, event, context, raises,
            before \o <<CanHandleStep(i, table[i], c)>>, c)

DispatchLoop(i, table, custom, event, context, raises, before) ==
    IF i > Len(table)
    THEN DispatchFallback(custom, event, context, raises, before)
    ELSE Consulted(i, table, custom, event, context, raises, before,
                   can_handle(table[i].handler, event))

\* a dispatch that goes through the table from the newest entry to the oldest
dispatch_NewestFirst(table, custom, event, context, raises) ==
    DispatchLoop(1, [i \in 1..Len(table) |-> table[Len(table) + 1 - i]], custom,
                 event, context, raises, <<>>)

\* Router.dispatch(event, context) on a router holding table and custom
dispatch(table, custom, event, context, raises) ==
    DispatchLoop(1, table, custom, event, context, raises, <<>>)

----------------------------------------------------------------------------
(* Payloads: deserialized documents, well formed and malformed *)

MaxRecords == 2
MaxHandlers == 2

SqsRecord ==
    D(<< <<"eventSource", S("aws:sqs")>>, <<"messageId", S("m1")>>,
         <<"body", S("hi")>> >>)
S3Record ==
    D(<< <<"eventSource", S("aws:s3")>>, <<"eventName", S("ObjectCreated:Put")>>,
         <<"s3", D(<< <<"bucket", D(<< <<"name", S("b")>> >>)>>,
                      <<"object", D(<< <<"key", S("k")>>, <<"size", I(3)>> >>)>> >>)>> >>)
DynamoDBRecord ==
    D(<< <<"eventSource", S("aws:dynamodb")>>, <<"eventID", S("e1")>> >>)
KinesisRecord ==
    D(<< <<"eventSource", S("aws:kinesis")>>,
         <<"kinesis", D(<< <<"partitionKey", S("p")>> >>)>> >>)
SnsRecord ==
    D(<< <<"EventSource", S("aws:sns")>>,
         <<"Sns", D(<< <<"MessageId", S("n1")>> >>)>> >>)
\* both spellings of the source key in one record
SnsSqsRecord ==
    D(<< <<"EventSource", S("aws:sns")>>, <<"eventSource", S("aws:sqs")>> >>)
LowerSnsRecord == D(<< <<"eventSource", S("aws:sns")>> >>)
PlainRecord == D(<< <<"body", S("hi")>> >>)

MappingRecords ==
    {SqsRecord, S3Record, DynamoDBRecord, KinesisRecord, SnsRecord, SnsSqsRecord,
     LowerSnsRecord, PlainRecord}

\* records that are no mapping
NonMappingRecords == {PyNone, I(7), S("eventSource"), L(<<S("eventSource")>>)}

RecordValues == MappingRecords \cup NonMappingRecords

Batches == UNION {[1..n -> RecordValues] : n \in 0..MaxRecords}

BatchPayloads == {D(<< <<"Records", L(b)>> >>) : b \in Batches}

\* 'Records' present and no sequence of records
NonSequenceRecords ==
    {PyNone, I(3), S(""), S("abc"), EmptyDict, D(<< <<"a", SqsRecord>> >>)}

NonSequencePayloads == {D(<< <<"Records", r>> >>) : r \in NonSequenceRecords}

RequestContexts ==
    {EmptyDict, PyNone, S("ctx"),
     D(<< <<"requestId", S("r1")>>, <<"identity", PyNone>> >>),
     D(<< <<"requestId", S("r1")>>, <<"stage", S("prod")>>,
          <<"identity", D(<< <<"sourceIp", S("10.0.0.1")>> >>)>> >>)}

\* the values given to 'headers', 'queryStringParameters' and 'pathParameters'
ParameterValues == {PyNone, D(<< <<"page", S("2")>> >>)}

GatewayBase(rc) ==
    << <<"httpMethod", S("GET")>>, <<"path", S("/users")>>, <<"requestContext", rc>> >>

GatewayPayloads ==
    {D(GatewayBase(rc)) : rc \in RequestContexts}
    \cup {D(GatewayBase(EmptyDict) \o << <<k, v>> >>) :
            k \in {"headers", "queryStringParameters", "pathParameters"},
            v \in ParameterValues}

EmptyPayload == EmptyDict
UnknownPayload == D(<< <<"custom_field", S("custom_value")>>, <<"another_field", I(123)>> >>)
EventBridgePayload ==
    D(<< <<"source", S("aws.events")>>, <<"detail-type", S("Scheduled Event")>>,
         <<"detail", D(<< <<"test", S("value")>> >>)>> >>)
KafkaRecordValue == D(<< <<"topic", S("t")>>, <<"offset", I(5)>> >>)
KafkaListPayload ==
    D(<< <<"eventSource", S("aws:kafka")>>, <<"records", L(<<KafkaRecordValue>>)>> >>)
KafkaMapPayload ==
    D(<< <<"eventSource", S("aws:self-managed-kafka")>>,
         <<"records", D(<< <<"t-0", KafkaRecordValue>> >>)>> >>)
KafkaTopicMapPayload ==
    D(<< <<"eventSource", S("aws:kafka")>>,
         <<"records", D(<< <<"t-0", L(<<KafkaRecordValue>>)>> >>)>> >>)
KafkaRecordValue2 == D(<< <<"topic", S("u")>>, <<"offset", I(6)>> >>)
KafkaTwoListPayload ==
    D(<< <<"eventSource", S("aws:kafka")>>,
         <<"records", L(<<KafkaRecordValue, KafkaRecordValue2>>)>> >>)
KafkaTwoMapPayload ==
    D(<< <<"eventSource", S("aws:kafka")>>,
         <<"records", D(<< <<"t-0", KafkaRecordValue>>,
                           <<"u-0", KafkaRecordValue2>> >>)>> >>)
\* a gateway request that also carries a queue batch
GatewaySqsPayload == D(GatewayBase(EmptyDict) \o << <<"Records", L(<<SqsRecord>>)>> >>)
\* a gateway request that also carries 'Records': null
GatewayNullRecordsPayload == D(GatewayBase(EmptyDict) \o << <<"Records", PyNone>> >>)

OtherPayloads ==
    {EmptyPayload, UnknownPayload, EventBridgePayload, KafkaListPayload,
     KafkaMapPayload, KafkaTopicMapPayload, KafkaTwoListPayload,
     KafkaTwoMapPayload, GatewaySqsPayload, GatewayNullRecordsPayload}

Payloads == BatchPayloads \cup NonSequencePayloads \cup GatewayPayloads \cup OtherPayloads

SqsPayload == D(<< <<"Records", L(<<SqsRecord>>)>> >>)
SnsSqsPayload == D(<< <<"Records", L(<<SnsSqsRecord>>)>> >>)
NullRecordsPayload == D(<< <<"Records", PyNone>> >>)
NullContextPayload == D(GatewayBase(PyNone))
GatewayPayload == D(GatewayBase(EmptyDict))
LowerSnsPayload == D(<< <<"Records", L(<<LowerSnsRecord>>)>> >>)

\* the payloads the router is given
DispatchPayloads ==
    {EmptyPayload, GatewayPayload, NullContextPayload, SqsPayload, SnsSqsPayload,
     GatewaySqsPayload, NullRecordsPayload, EventBridgePayload,
     GatewayNullRecordsPayload, LowerSnsPayload}

\* the callback of the n-th family registration, and the fallback callbacks
Func(n) == "f" \o ToString(n)
CustomFuncs == {"g1", "g2"}
Paths == {"/users", "/orders"}
Methods == {"get", "post"}
\* the routes the application declares on its gateway callbacks
Routes == {<<"/users", "get">>, <<"/orders", "post">>}
Contexts == {"ctx"}

----------------------------------------------------------------------------
(* The router as a state machine *)

NoCall == [op |-> "init"]
NoProbe == [op |-> "none"]

Init ==
    /\ handlers = <<>>
    /\ custom_handler = PyNone
    /\ last = NoCall
    /\ probe = NoProbe

\* a registration that skips a callback the table already holds for the family
Register_Dedup(key, func, path, method) ==
    /\ Len(handlers) < MaxHandlers
    /\ handlers' =
           IF \E i \in 1..Len(handlers) :
                  handlers[i].func = func /\ handlers[i].handler = key
           THEN handlers
           ELSE Append(handlers, HandlerRegistration(func, key, path, method))
    /\ last' = [op |-> "register", key |-> key, func |-> func, outcome |-> Return(func)]
    /\ UNCHANGED <<custom_handler, probe>>

\* self._handlers.append(HandlerRegistration(...)); return func
Register(key, func, path, method) ==
    /\ Len(handlers) < MaxHandlers
    /\ handlers' = Append(handlers, HandlerRegistration(func, key, path, method))
    /\ last' = [op |-> "register", key |-> key, func |-> func, outcome |-> Return(func)]
    /\ UNCHANGED <<custom_handler, probe>>

Router_apigateway(path, method, func) ==
    Register("apigateway", func, S(path), S(Upper(method)))

Router_sqs(func) == Register("sqs", func, PyNone, PyNone)

Router_s3(func) == Register("s3", func, PyNone, PyNone)

Router_dynamodb(func) == Register("dynamodb", func, PyNone, PyNone)

Router_kinesis(func) == Register("kinesis", func, PyNone, PyNone)

Router_sns(func) == Register("sns", func, PyNone, PyNone)

Router_eventbridge(func) == Register("eventbridge", func, PyNone, PyNone)

Router_kafka(func) == Register("kafka", func, PyNone, PyNone)

\* a decorator that assigns the slot before looking at it
CustomSlot_Overwrite(slot, func) ==
    HandlerRegistration(func, "custom", PyNone, PyNone)

\* a decorator that never looks at the slot
CustomOutcome_Unchecked(slot, func) == Return(func)

\* the slot after custom()(func), and what the decorator ended with
CustomSlot(slot, func) ==
    IF slot # PyNone THEN slot
    ELSE HandlerRegistration(func, "custom", PyNone, PyNone)

CustomOutcome(slot, func) ==
    IF slot # PyNone THEN OnlyOneCustom ELSE Return(func)

\* a fallback registration that appends to the table, as the families do
Router_custom_Appending(func) ==
    /\ Len(handlers) < MaxHandlers
    /\ handlers' = Append(handlers, HandlerRegistration(func, "custom", PyNone, PyNone))
    /\ custom_handler' = CustomSlot(custom_handler, func)
    /\ last' = [op |-> "custom", func |-> func,
                outcome |-> CustomOutcome(custom_handler, func)]
    /\ UNCHANGED probe

Router_custom(func) ==
    /\ custom_handler' = CustomSlot(custom_handler, func)
    /\ last' = [op |-> "custom", func |-> func,
                outcome |-> CustomOutcome(custom_handler, func)]
    /\ UNCHANGED <<handlers, probe>>

\* a dispatch that takes the entries off the table as it goes through them
Router_dispatch_Popping(event, context) ==
    \E raises \in BOOLEAN :
        /\ last' = dispatch(handlers, custom_handler, event, context, raises)
        /\ handlers' = IF handlers = <<>> THEN handlers ELSE Tail(handlers)
        /\ UNCHANGED <<custom_handler, probe>>

\* the user callback, if one is invoked, returns or raises
Router_dispatch(event, context) ==
    \E raises \in BOOLEAN :
        /\ last' = dispatch(handlers, custom_handler, event, context, raises)
        /\ UNCHANGED <<handlers, custom_handler, probe>>

\* the application registers a new callback with each family registration
NextFunc == Func(Len(handlers) + 1)

Next ==
    \/ \E r \in Routes : Router_apigateway(r[1], r[2], NextFunc)
    \/ Router_sqs(NextFunc)
    \/ Router_s3(NextFunc)
    \/ Router_dynamodb(NextFunc)
    \/ Router_kinesis(NextFunc)
    \/ Router_sns(NextFunc)
    \/ Router_eventbridge(NextFunc)
    \/ Router_kafka(NextFunc)
    \/ \E f \in CustomFuncs : Router_custom(f)
    \/ \E e \in DispatchPayloads, c \in Contexts : Router_dispatch(e, c)

Spec == Init /\ [][Next]_vars

----------------------------------------------------------------------------
(* Registration alone, the application free to register a callback again, *)
(* under the same family or another one (stacked decorators)              *)

Funcs == {"f1", "f2"}

RegisterNext ==
    \/ \E r \in Routes, f \in Funcs : Router_apigateway(r[1], r[2], f)
    \/ \E f \in Funcs : Router_sqs(f)
    \/ \E f \in Funcs : Router_s3(f)
    \/ \E f \in Funcs : Router_dynamodb(f)
    \/ \E f \in Funcs : Router_kinesis(f)
    \/ \E f \in Funcs : Router_sns(f)
    \/ \E f \in Funcs : Router_eventbridge(f)
    \/ \E f \in Funcs : Router_kafka(f)
    \/ \E f \in CustomFuncs : Router_custom(f)

RegisterSpec == Init /\ [][RegisterNext]_vars

----------------------------------------------------------------------------
(* The router as the application builds it, registration after registration, *)
(* before any payload arrives                                                *)

GrowNext ==
    \/ \E r \in Routes : Router_apigateway(r[1], r[2], NextFunc)
    \/ Router_sqs(NextFunc)
    \/ Router_s3(NextFunc)
    \/ Router_dynamodb(NextFunc)
    \/ Router_kinesis(NextFunc)
    \/ Router_sns(NextFunc)
    \/ Router_eventbridge(NextFunc)
    \/ Router_kafka(NextFunc)
    \/ \E f \in CustomFuncs : Router_custom(f)

GrowSpec == Init /\ [][GrowNext]_vars

----------------------------------------------------------------------------
(* A classifier and its parser applied to one payload *)

ProbeInit ==
    /\ handlers = <<>>
    /\ custom_handler = PyNone
    /\ last = NoCall
    /\ probe \in [op : {"input"}, handler : HandlerKeys, event : Payloads]

Probe ==
    /\ probe.op = "input"
    /\ probe' = [op |-> "probe", handler |-> probe.handler, event |-> probe.event,
                 matches |-> can_handle(probe.handler, probe.event),
                 parsed |-> parse_event(probe.handler, probe.event)]
    /\ UNCHANGED <<handlers, custom_handler, last>>

ProbeNext == Probe

ProbeSpec == ProbeInit /\ [][ProbeNext]_vars


----------------------------------------------------------------------------
(* Properties *)

Min(set) == CHOOSE x \in set : \A y \in set : x <= y

\* the callback invocations of a dispatch, in order
Calls(trace) == SelectSeq(trace, LAMBDA s : s.step = "call")

\* the entries of table whose classifier answers true for event
Matching(table, event) ==
    {i \in 1..Len(table) : can_handle(table[i].handler, event) = PyTrue}

IsDispatch == last.op = "dispatch"

\* the generic typed event the fallback is given for event
GenericEvent(event) ==
    Obj("CustomEvent", [a \in {"raw_event", "event_data"} |-> event])

\* C1: whenever some entry's classifier matches the dispatched payload, the
\* dispatch invokes exactly one callback, that of the earliest-registered
\* matching entry.
C1_FirstMatchInvoked ==
    (IsDispatch /\ Matching(handlers, last.event) # {}) =>
        /\ Len(Calls(last.trace)) = 1
        /\ Calls(last.trace)[1].idx = Min(Matching(handlers, last.event))
        /\ Calls(last.trace)[1].func =
               handlers[Min(Matching(handlers, last.event))].func

\* C2: when no entry matches the dispatched payload and a fallback is
\* registered, the dispatch invokes the fallback callback exactly once, with
\* the generic typed event holding the payload, and ends with its result.
C2_FallbackInvoked ==
    (IsDispatch /\ Matching(handlers, last.event) = {} /\ custom_handler # PyNone) =>
        /\ Len(Calls(last.trace)) = 1
        /\ Calls(last.trace)[1].idx = 0
        /\ Calls(last.trace)[1].func = custom_handler.func
        /\ Calls(last.trace)[1].event = GenericEvent(last.event)
        /\ last.outcome = Calls(last.trace)[1].result

\* C3: when no entry matches the dispatched payload and no fallback is
\* registered, the dispatch ends with the classification error and invokes no
\* callback.
C3_NoHandlerFound ==
    (IsDispatch /\ Matching(handlers, last.event) = {} /\ custom_handler = PyNone) =>
        /\ last.outcome = NoHandlerFound
        /\ Calls(last.trace) = <<>>

\* C4: once the fallback slot is occupied, every fallback registration ends
\* with the configuration error, whatever was registered or dispatched before.
C4_SecondCustomRejected ==
    [][(custom_handler # PyNone /\ last'.op = "custom") =>
           last'.outcome = OnlyOneCustom]_vars

C4_Witness ==
    /\ last.op = "custom"
    /\ last.outcome = OnlyOneCustom
    /\ last.func = custom_handler.func
    /\ Len(handlers) >= 1

C6_ResultPassedThrough ==
    IsDispatch =>
        \A i \in 1..Len(last.trace) :
            (last.trace[i].step = "call" /\ last.trace[i].result.t = "return") =>
                /\ last.outcome = last.trace[i].result
                /\ last.outcome = Behaviour(last.trace[i].func, FALSE)

C6_Witness ==
    /\ IsDispatch
    /\ Len(Calls(last.trace)) = 1
    /\ Calls(last.trace)[1].idx = 2
    /\ last.outcome = Return(S(handlers[2].func))

\* C7: when the invoked callback raises, the dispatch ends with that error,
\* the call is its last step and its only call, and the table and the
\* fallback slot are as before.
C7_CallbackErrorPropagates ==
    [][(last'.op = "dispatch" /\ Calls(last'.trace) # <<>>
            /\ IsRaise(Calls(last'.trace)[1].result)) =>
           /\ last'.outcome = Calls(last'.trace)[1].result
           /\ last'.outcome = Behaviour(Calls(last'.trace)[1].func, TRUE)
           /\ Len(Calls(last'.trace)) = 1
           /\ last'.trace[Len(last'.trace)].step = "call"
           /\ handlers' = handlers
           /\ custom_handler' = custom_handler]_vars

C7_Witness ==
    /\ IsDispatch
    /\ Len(handlers) = 2
    /\ Matching(handlers, last.event) = {1, 2}
    /\ custom_handler # PyNone
    /\ Len(Calls(last.trace)) = 1
    /\ Calls(last.trace)[1].idx = 1
    /\ last.outcome = Raise("RuntimeError", handlers[1].func)

\* C8: can_handle of every classifier answers true or false on every payload
\* mapping; it never raises.
C8_CanHandleTotal ==
    probe.op = "probe" => probe.matches \in {PyTrue, PyFalse}

\* C9: on every payload its classifier matches, a family's parse_event yields
\* a typed event; it never raises.
C9_ParseTotal ==
    (probe.op = "probe" /\ probe.matches = PyTrue) => ~IsRaise(probe.parsed)

\* the gateway payload keys holding mappings, and the attributes they set
ParameterFields ==
    << <<"headers", "headers">>,
       <<"queryStringParameters", "query_string_parameters">>,
       <<"pathParameters", "path_parameters">> >>

\* C10: a gateway field whose key is present with a value that is no mapping
\* is set to the empty mapping in the typed event.
C10_DefaultOnMismatch ==
    (probe.op = "probe" /\ probe.handler = "apigateway" /\ ~IsRaise(probe.parsed)) =>
        \A i \in 1..Len(ParameterFields) :
            (/\ HasKey(probe.event, ParameterFields[i][1])
             /\ ~IsDict(Lookup(probe.event, ParameterFields[i][1]))) =>
                probe.parsed.attrs[ParameterFields[i][2]] = EmptyDict

\* the gateway payload keys the claim names, the attribute each sets and the
\* value the attribute has when the key is absent
GatewayFields ==
    << <<"httpMethod", "http_method", S("")>>,
       <<"path", "path", S("")>>,
       <<"headers", "headers", EmptyDict>>,
       <<"queryStringParameters", "query_string_parameters", EmptyDict>>,
       <<"pathParameters", "path_parameters", EmptyDict>> >>

\* the value the payload holds at key, or default when the key is absent
ValueOrDefault(event, key, default) ==
    IF HasKey(event, key) THEN Lookup(event, key) ELSE default

\* C11: for every payload the gateway classifier matches, parse_event yields a
\* typed event whose http_method, path, headers, query_string_parameters and
\* path_parameters are the payload's values at 'httpMethod', 'path',
\* 'headers', 'queryStringParameters' and 'pathParameters', and the empty
\* string or the empty mapping where the key is absent.
C11_GatewayFields ==
    (probe.op = "probe" /\ probe.handler = "apigateway" /\ probe.matches = PyTrue) =>
        /\ ~IsRaise(probe.parsed)
        /\ \A i \in 1..Len(GatewayFields) :
               probe.parsed.attrs[GatewayFields[i][2]] =
                   ValueOrDefault(probe.event, GatewayFields[i][1], GatewayFields[i][3])

\* the families whose typed event holds a sequence of records
BatchFamilies == {"sqs", "s3", "dynamodb", "kinesis", "sns"}

\* the typed record family h builds from one element of 'Records'
RecordOf(h, data) ==
    CASE h = "sqs" -> SQSMessage_from_dict(data)
      [] h = "s3" -> S3Record_from_dict(data)
      [] h = "dynamodb" -> DynamoDBStreamRecord_from_dict(data)
      [] h = "kinesis" -> KinesisRecord_from_dict(data)
      [] h = "sns" -> SNSMessage_from_dict(data)

\* C12: for every payload a batch family's classifier matches, parse_event
\* yields a typed event whose records are as many as the payload's 'Records'
\* and whose i-th record is the family's typed record of the i-th element of
\* 'Records', whatever the source tag of the elements after the first.
C12_RecordsPreserved ==
    (probe.op = "probe" /\ probe.handler \in BatchFamilies /\ probe.matches = PyTrue) =>
        /\ ~IsRaise(probe.parsed)
        /\ probe.parsed.attrs["records"].t = "list"
        /\ Len(probe.parsed.attrs["records"].items) =
               Len(Lookup(probe.event, "Records").items)
        /\ \A i \in 1..Len(Lookup(probe.event, "Records").items) :
               probe.parsed.attrs["records"].items[i] =
                   RecordOf(probe.handler, Lookup(probe.event, "Records").items[i])

\* table with the path and method of every entry replaced by path and method
WithRoute(table, path, method) ==
    [i \in 1..Len(table) |->
        HandlerRegistration(table[i].func, table[i].handler, path, method)]

\* the entries of table registered through Router.apigateway
GatewayEntries(table) == {i \in 1..Len(table) : table[i].handler = "apigateway"}

\* C13: the path and method stored on the entries are never consulted: a
\* dispatch takes the same steps and selects the same entry as it does on the
\* table with the path and method of every entry erased or replaced; and a
\* payload the gateway classifier matches never gets past the first-registered
\* gateway entry, whatever path and method the payload and the entries carry.
C13_RouteInert ==
    IsDispatch =>
        /\ \A p \in {PyNone} \cup {S(x) : x \in Paths} :
               \E raises \in BOOLEAN :
                   last = dispatch(WithRoute(handlers, p, p), custom_handler,
                                   last.event, last.context, raises)
        /\ \A i \in 1..Len(last.trace) :
               (last.trace[i].step = "parse_event"
                    /\ last.trace[i].handler = "apigateway") =>
                   last.trace[i].idx = Min(GatewayEntries(handlers))
        /\ (can_handle("apigateway", last.event) = PyTrue
                /\ GatewayEntries(handlers) # {}) =>
               \A i \in 1..Len(last.trace) :
                   /\ last.trace[i].idx >= 1
                   /\ last.trace[i].idx <= Min(GatewayEntries(handlers))

\* two gateway entries, the second declaring the payload's route and the first
\* another one: the first is invoked
C13_Witness ==
    /\ IsDispatch
    /\ Len(handlers) >= 2
    /\ handlers[1] = HandlerRegistration("f1", "apigateway", S("/orders"), S("POST"))
    /\ handlers[2] = HandlerRegistration("f2", "apigateway", S("/users"), S("GET"))
    /\ PyGet(last.event, "path", PyNone) = S("/users")
    /\ PyGet(last.event, "httpMethod", PyNone) = S("GET")
    /\ Len(Calls(last.trace)) = 1
    /\ Calls(last.trace)[1].idx = 1
    /\ Calls(last.trace)[1].func = "f1"

\* the families whose classifier answers true for event, and the families
\* with an entry in table
Satisfied(event) == {h \in FamilyKeys : can_handle(h, event) = PyTrue}
Registered(table) == {table[i].handler : i \in 1..Len(table)}

\* C14: a dispatch consults only the classifiers of registered entries; and a
\* payload that satisfies the predicate of some family, none of whose families
\* has an entry in the table, is given to the fallback as a generic typed
\* event when one is registered and otherwise ends in the classification error
\* with no callback invoked.
C14_OnlyRegistered ==
    IsDispatch =>
        /\ \A i \in 1..Len(last.trace) :
               /\ last.trace[i].idx >= 1 =>
                      /\ last.trace[i].idx <= Len(handlers)
                      /\ last.trace[i].step # "call" =>
                             last.trace[i].handler = handlers[last.trace[i].idx].handler
               /\ last.trace[i].idx = 0 => custom_handler # PyNone
        /\ (Satisfied(last.event) # {}
                /\ Satisfied(last.event) \cap Registered(handlers) = {}) =>
               /\ \A i \in 1..Len(last.trace) :
                      last.trace[i].step # "call" =>
                          last.trace[i].handler \notin Satisfied(last.event)
               /\ custom_handler # PyNone =>
                      /\ Len(Calls(last.trace)) = 1
                      /\ Calls(last.trace)[1].idx = 0
                      /\ Calls(last.trace)[1].func = custom_handler.func
                      /\ Calls(last.trace)[1].event = GenericEvent(last.event)
                      /\ last.outcome = Calls(last.trace)[1].result
               /\ custom_handler = PyNone =>
                      /\ last.outcome = NoHandlerFound
                      /\ Calls(last.trace) = <<>>

\* C15: every step leaves the entries the table holds and their order as they
\* are; a family registration appends exactly one entry, holding the callback
\* and the family's classifier, at the end of the table and leaves the
\* fallback slot as it is, also when the table already holds that callback or
\* that family; a successful fallback registration sets the slot and leaves
\* the table as it is.
C15_AppendsOneEntry ==
    [][/\ Len(handlers') >= Len(handlers)
       /\ SubSeq(handlers', 1, Len(handlers)) = handlers
       /\ (last'.op = "register" /\ (last' # last \/ handlers' # handlers)) =>
              /\ Len(handlers') = Len(handlers) + 1
              /\ handlers'[Len(handlers')].func = last'.func
              /\ handlers'[Len(handlers')].handler = last'.key
              /\ last'.outcome = Return(last'.func)
              /\ custom_handler' = custom_handler
       /\ (last'.op = "custom" /\ last'.outcome.t = "return") =>
              /\ handlers' = handlers
              /\ custom_handler' =
                     HandlerRegistration(last'.func, "custom", PyNone, PyNone)]_vars

\* the same callback registered twice for the same family, beside a fallback
C15_Witness ==
    /\ Len(handlers) = 2
    /\ handlers[1] = handlers[2]
    /\ handlers[1].handler = "sqs"
    /\ last.op = "register"
    /\ custom_handler # PyNone

\* the positions in trace of the steps of one kind
StepsOf(trace, kind) == {i \in 1..Len(trace) : trace[i].step = kind}

\* C16: a dispatch invokes at most one callback and parses at most once; it
\* parses only right after the classifier of that entry has answered true, or
\* with the always-matching fallback classifier, and invokes the callback only
\* right after the parse and on its result; it consults the classifiers in
\* table order and none after the first that answers true; and it comes to
\* the fallback only after the classifier of every entry has answered false.
C16_OneParseOneCall ==
    IsDispatch =>
        /\ Cardinality(StepsOf(last.trace, "call")) <= 1
        /\ Cardinality(StepsOf(last.trace, "parse_event")) <= 1
        /\ \A i \in StepsOf(last.trace, "can_handle") :
               /\ last.trace[i].idx = i
               /\ i <= Len(handlers)
               /\ last.trace[i].result = can_handle(handlers[i].handler, last.event)
               /\ i < Cardinality(StepsOf(last.trace, "can_handle")) =>
                      last.trace[i].result = PyFalse
        /\ \A i \in StepsOf(last.trace, "parse_event") :
               /\ can_handle(last.trace[i].handler, last.event) = PyTrue
               /\ last.trace[i].idx >= 1 =>
                      /\ i > 1
                      /\ last.trace[i - 1].step = "can_handle"
                      /\ last.trace[i - 1].idx = last.trace[i].idx
                      /\ last.trace[i - 1].result = PyTrue
               /\ last.trace[i].idx = 0 =>
                      /\ last.trace[i].handler = "custom"
                      /\ StepsOf(last.trace, "can_handle") = 1..Len(handlers)
                      /\ \A j \in 1..Len(handlers) : last.trace[j].result = PyFalse
               /\ \A j \in StepsOf(last.trace, "can_handle") : j < i
        /\ \A i \in StepsOf(last.trace, "call") :
               /\ i > 1
               /\ i = Len(last.trace)
               /\ last.trace[i - 1].step = "parse_event"
               /\ last.trace[i - 1].idx = last.trace[i].idx
               /\ last.trace[i - 1].result = last.trace[i].event

\* the second of two matching entries is never consulted, the first is
\* parsed for and invoked, a fallback being registered
C16_Witness ==
    /\ IsDispatch
    /\ Len(handlers) = 2
    /\ Matching(handlers, last.event) = {1, 2}
    /\ custom_handler # PyNone
    /\ Len(last.trace) = 3
    /\ last.trace[1].step = "can_handle"
    /\ last.trace[2].step = "parse_event"
    /\ last.trace[3].step = "call"
    /\ last.trace[3].idx = 1

C18_NoCustomInTable ==
    /\ \A i \in 1..Len(handlers) : handlers[i].handler \in FamilyKeys
    /\ custom_handler # PyNone => custom_handler.handler = "custom"
    /\ IsDispatch =>
           \A i \in 1..Len(last.trace) :
               (last.trace[i].step # "call" /\ last.trace[i].handler = "custom") =>
                   last.trace[i].idx = 0

\* with a fallback registered, a payload is handled by the second entry
C18_Witness ==
    /\ IsDispatch
    /\ custom_handler # PyNone
    /\ Len(handlers) = 2
    /\ Len(Calls(last.trace)) = 1
    /\ Calls(last.trace)[1].idx = 2
    /\ Calls(last.trace)[1].func = handlers[2].func

\* the record-batch families keyed on 'eventSource', and the tag of each
TaggedFamilies == {"sqs", "s3", "dynamodb", "kinesis"}
Tag(h) ==
    CASE h = "sqs" -> "aws:sqs"
      [] h = "s3" -> "aws:s3"
      [] h = "dynamodb" -> "aws:dynamodb"
      [] h = "kinesis" -> "aws:kinesis"
      [] h = "sns" -> "aws:sns"

\* 'Records' is a non-empty sequence whose first element is a mapping holding
\* value at key
FirstRecordHas(event, key, value) ==
    /\ HasKey(event, "Records")
    /\ Lookup(event, "Records").t = "list"
    /\ Len(Lookup(event, "Records").items) > 0
    /\ Lookup(event, "Records").items[1].t = "dict"
    /\ HasKey(Lookup(event, "Records").items[1], key)
    /\ Lookup(Lookup(event, "Records").items[1], key) = value

\* the payload {'Records': [first record of event]}
FirstOnly(event) ==
    D(<< <<"Records", L(<<Lookup(event, "Records").items[1]>>)>> >>)

IsBatch(event) == HasKey(event, "Records") /\ Lookup(event, "Records").t = "list"

\* C19: the classifier of a record-batch family answers true exactly for the
\* payloads whose 'Records' is a non-empty sequence whose first record holds
\* the family's tag at 'eventSource'; it answers false when 'Records' is an
\* empty sequence; and its answer for a batch is its answer for the batch of
\* the first record alone.
C19_BatchClassifier ==
    (probe.op = "probe" /\ probe.handler \in TaggedFamilies) =>
        /\ probe.matches = PyTrue <=>
               FirstRecordHas(probe.event, "eventSource", S(Tag(probe.handler)))
        /\ (IsBatch(probe.event) /\ Lookup(probe.event, "Records").items = <<>>) =>
               probe.matches = PyFalse
        /\ (IsBatch(probe.event) /\ Lookup(probe.event, "Records").items # <<>>
                /\ Len(probe.event.kv) = 1) =>
               probe.matches = can_handle(probe.handler, FirstOnly(probe.event))

\* a batch of a queue record followed by a blob record is a queue batch
C19_Witness ==
    /\ probe.op = "probe"
    /\ probe.handler = "sqs"
    /\ IsBatch(probe.event)
    /\ Lookup(probe.event, "Records").items = <<SqsRecord, S3Record>>
    /\ probe.matches = PyTrue

\* the entries of table holding a pub/sub or a queue classifier
SnsOrSqsEntries(table) == {i \in 1..Len(table) : table[i].handler \in {"sns", "sqs"}}

\* C20: whenever a dispatch consults the pub/sub classifier, it answers true
\* exactly when 'Records' is a non-empty sequence whose first record holds
\* 'aws:sns' at the capitalized 'EventSource'; a first record holding 'aws:sns'
\* at lowercase 'eventSource' only is never handled as pub/sub; and a first
\* record holding 'EventSource' = 'aws:sns' and 'eventSource' = 'aws:sqs' is
\* matched by both the pub/sub and the queue classifier and handled by the
\* entry of the two registered first.
C20_SnsCapitalized ==
    IsDispatch =>
        /\ \A i \in 1..Len(last.trace) :
               (last.trace[i].step = "can_handle" /\ last.trace[i].handler = "sns") =>
                   (last.trace[i].result = PyTrue <=>
                        FirstRecordHas(last.event, "EventSource", S(Tag("sns"))))
        /\ (FirstRecordHas(last.event, "eventSource", S(Tag("sns")))
                /\ ~FirstRecordHas(last.event, "EventSource", S(Tag("sns")))) =>
               \A i \in 1..Len(last.trace) :
                   /\ last.trace[i].step = "parse_event" => last.trace[i].handler # "sns"
                   /\ (last.trace[i].step = "can_handle"
                           /\ last.trace[i].handler = "sns") =>
                          last.trace[i].result = PyFalse
        /\ (FirstRecordHas(last.event, "EventSource", S(Tag("sns")))
                /\ FirstRecordHas(last.event, "eventSource", S(Tag("sqs")))) =>
               /\ can_handle("sns", last.event) = PyTrue
               /\ can_handle("sqs", last.event) = PyTrue
               /\ SnsOrSqsEntries(handlers) # {} =>
                      /\ Len(Calls(last.trace)) = 1
                      /\ Calls(last.trace)[1].idx = Min(SnsOrSqsEntries(handlers))
                      /\ Calls(last.trace)[1].func =
                             handlers[Min(SnsOrSqsEntries(handlers))].func

\* a record tagged for both families goes to the queue entry registered
\* before the pub/sub entry
C20_Witness ==
    /\ IsDispatch
    /\ last.event = SnsSqsPayload
    /\ Len(handlers) = 2
    /\ handlers[1].handler = "sqs"
    /\ handlers[2].handler = "sns"
    /\ Len(Calls(last.trace)) = 1
    /\ Calls(last.trace)[1].func = handlers[1].func
    /\ Calls(last.trace)[1].event.cls = "SQSEvent"

\* the routers the current one has grown from: the table only grows at its
\* end and the slot is set once, so an earlier router holds a prefix of the
\* table and an empty slot or the present one
Earlier(table, custom) ==
    {<<SubSeq(table, 1, k), c>> : k \in 0..Len(table), c \in {PyNone, custom}}
        \ {<<table, custom>>}

\* the dispatch record shows the classifier of each of the n entries
\* answering false
FellThrough(record, n) ==
    /\ StepsOf(record.trace, "can_handle") = 1..n
    /\ \A i \in 1..n : record.trace[i].result = PyFalse

\* what C21 says of the dispatch of event on an earlier router (before) and
\* on the present one (after)
SameUnlessFellThrough(table, event, before, after) ==
    /\ Matching(table, event) # {} => after = before
    /\ after # before => FellThrough(before, Len(table))

\* C21: if some entry of an earlier table of the router matches a payload,
\* the dispatch of the payload on the present router takes the same steps,
\* selects the same entry and invokes the same callback as on the earlier
\* one; and the two dispatches differ only if, on the earlier router, the
\* payload fell through every entry to the fallback or the classification
\* error.
C21_Monotone ==
    \A e \in DispatchPayloads, c \in Contexts, raises \in BOOLEAN :
        LET after == dispatch(handlers, custom_handler, e, c, raises)
        IN  \A w \in Earlier(handlers, custom_handler) :
                SameUnlessFellThrough(w[1], e,
                    dispatch(w[1], w[2], e, c, raises), after)

\* a queue entry, then a pub/sub entry and a fallback: the payload both
\* classifiers match still goes to the queue callback
C21_Witness ==
    /\ Len(handlers) = 2
    /\ handlers[1].handler = "sqs"
    /\ handlers[2].handler = "sns"
    /\ custom_handler # PyNone
    /\ Matching(handlers, SnsSqsPayload) = {1, 2}
    /\ dispatch(handlers, custom_handler, SnsSqsPayload, "ctx", FALSE).outcome
           = Return(S(handlers[1].func))
    /\ dispatch(<<handlers[1]>>, PyNone, SnsSqsPayload, "ctx", FALSE).outcome
           = Return(S(handlers[1].func))

\* the record mappings a sequence of values of 'records' holds, in order: a
\* value that is a sequence of records stands for its elements
RECURSIVE KafkaRecordsIn(_)
KafkaRecordsIn(values) ==
    IF values = <<>> THEN <<>>
    ELSE (IF Head(values).t = "list" THEN Head(values).items ELSE <<Head(values)>>)
             \o KafkaRecordsIn(Tail(values))

\* the record mappings of the payload's 'records', a sequence or a mapping
KafkaRecordsOf(event) ==
    IF Lookup(event, "records").t = "dict"
    THEN KafkaRecordsIn(PyValues(Lookup(event, "records")).items)
    ELSE Lookup(event, "records").items

\* C22: for every payload the Kafka classifier matches whose 'records' is a
\* sequence of record mappings or a mapping, parse_event yields a typed event
\* whose records are the typed records of the elements of the sequence, in
\* order, or of the values of the mapping, the elements of a value that is
\* itself a sequence of records included.
C22_KafkaParse ==
    (probe.op = "probe" /\ probe.handler = "kafka" /\ probe.matches = PyTrue
         /\ Lookup(probe.event, "records").t \in {"list", "dict"}) =>
        /\ ~IsRaise(probe.parsed)
        /\ probe.parsed.attrs["records"] =
               L([i \in 1..Len(KafkaRecordsOf(probe.event)) |->
                     KafkaRecord_from_dict(KafkaRecordsOf(probe.event)[i])])

=============================================================================
